---- MODULE Spec2Model ----
(***************************************************************************)
(* Email drafting assistant: the Streamlit front end ultra_simple_app.py   *)
(* driving UltraSimpleEmailService (ultra_simple_backend.py) and the SMTP  *)
(* wrapper EmailService (email_service.py).  Three specifications: Spec is *)
(* the session of ultra_simple_app.py, ExtractSpec is process_requirements *)
(* over provider responses, AppSpec is the session of app.py.              *)
(*                                                                         *)
(* Text is modelled as a sequence of one-character strings.  " " and "\n"  *)
(* are the whitespace characters.  A letter stands for a run of            *)
(* non-whitespace characters (an address, a word).  Python's None and ""   *)
(* for current_draft / current_subject are both the empty sequence: every  *)
(* use in the code treats them alike (not x, x or "").  An optional        *)
(* value (current_brief, final_email) is a sequence of length 0 or 1.      *)
(***************************************************************************)
EXTENDS Integers, Sequences, FiniteSets, TLC

(* ------------------------------ bounds -------------------------------- *)

\* number of uuid4 thread identifiers that can be allocated
MaxThreads == 2

\* number of datetime.now() readings taken by database writes
MaxClock == 3

(* ---------------------------- input sets ------------------------------ *)

Whitespace == {" ", "\n"}

\* What the user can put into the create form: the recipients text area
\* (one address per line), the purpose text area, the tone select box and
\* the optional "Special requests" input.
Forms ==
  { [recipients |-> <<>>, purpose |-> <<"p">>, tone |-> "professional",
     constraints |-> <<>>],
    [recipients |-> <<" ", "\n">>, purpose |-> <<"p">>, tone |-> "friendly",
     constraints |-> <<>>],
    [recipients |-> <<"a">>, purpose |-> <<" ", "\n">>, tone |-> "formal",
     constraints |-> <<>>],
    [recipients |-> <<"a">>, purpose |-> <<"p">>, tone |-> "professional",
     constraints |-> <<>>],
    [recipients |-> <<" ", "b", "\n", "\n", "a">>, purpose |-> <<"q">>,
     tone |-> "urgent", constraints |-> <<"c">>],
    [recipients |-> <<"a", "\n", "w">>, purpose |-> <<"p">>,
     tone |-> "professional", constraints |-> <<>>] }

\* "a" and "b" stand for addresses of the form local@domain.tld; "w" on a
\* recipients line stands for a word that is no address (it has no "@")
WellFormedAddresses == { <<"a">>, <<"b">> }

\* what the user can type into the subject line / the body / the feedback
SubjectTexts == { <<"t">> }
BodyTexts == { <<" ">>, <<"e">> }
FeedbackTexts == { <<>>, <<" ">>, <<"f">> }

(* --------------------------- Python strings --------------------------- *)

RECURSIVE lstrip(_)
lstrip(s) ==
  IF s # <<>> /\ Head(s) \in Whitespace THEN lstrip(Tail(s)) ELSE s

RECURSIVE rstrip(_)
rstrip(s) ==
  IF s # <<>> /\ s[Len(s)] \in Whitespace
  THEN rstrip(SubSeq(s, 1, Len(s) - 1))
  ELSE s

\* str.strip()
strip(s) == rstrip(lstrip(s))

\* str.split('\n'): the pieces between newlines, empty pieces kept
RECURSIVE split_lines(_, _)
split_lines(s, cur) ==
  IF s = <<>> THEN <<cur>>
  ELSE IF Head(s) = "\n" THEN <<cur>> \o split_lines(Tail(s), <<>>)
  ELSE split_lines(Tail(s), Append(cur, Head(s)))

\* [f(x) for x in xs if p(x)] with f = strip and p = strip(x) non-empty
RECURSIVE strip_nonblank(_)
strip_nonblank(xs) ==
  IF xs = <<>> THEN <<>>
  ELSE IF strip(Head(xs)) # <<>>
       THEN <<strip(Head(xs))>> \o strip_nonblank(Tail(xs))
       ELSE strip_nonblank(Tail(xs))

\* s[:n]
Prefix(s, n) == SubSeq(s, 1, IF n < Len(s) THEN n ELSE Len(s))

\* str.find(sub, start): 0-based index of the first occurrence of sub at or
\* after start, -1 when there is none
RECURSIVE find_from(_, _, _)
find_from(s, sub, start) ==
  IF start + Len(sub) > Len(s) THEN -1
  ELSE IF SubSeq(s, start + 1, start + Len(sub)) = sub THEN start
  ELSE find_from(s, sub, start + 1)

find(s, sub) == find_from(s, sub, 0)

\* str.rfind(sub): 0-based index of the last occurrence, -1 when none
RECURSIVE rfind_from(_, _, _)
rfind_from(s, sub, start) ==
  IF start < 0 THEN -1
  ELSE IF SubSeq(s, start + 1, start + Len(sub)) = sub THEN start
  ELSE rfind_from(s, sub, start - 1)

rfind(s, sub) == rfind_from(s, sub, Len(s) - Len(sub))

\* the test: sub in s
contains(s, sub) == find(s, sub) # -1

\* s[i:j] for 0-based i >= 0 and any integer j (a negative j counts from the end)
slice(s, i, j) ==
  LET hi0 == IF j < 0 THEN Len(s) + j ELSE j
      hi == IF hi0 < 0 THEN 0 ELSE IF hi0 > Len(s) THEN Len(s) ELSE hi0
  IN  SubSeq(s, i + 1, hi)

(* ------------------------- generation client -------------------------- *)

\* "#" stands for the backtick character: Fence is the three-backtick marker
Fence == <<"#", "#", "#">>
FenceJson == Fence \o <<"j", "s", "o", "n">>

\* the length of the opening marker, the offset added at src line 128
FenceJsonLen == 7

\* brief.purpose[:50], src line 141
PurposeCut == 50

\* The text call_gemini_api returns when the request fails ("API Error: ...",
\* "Error: ...", "Error: Could not generate response"): "E" stands for it.
ApiErrorText == <<"E">>

\* JSON members are abbreviated to one character each:
\*   "S"  "subject_suggestion": "s"      "Z"  "subject_suggestion": ""
\*   "P"  "purpose": "r"
Members == {"S", "Z", "P"}

RECURSIVE json_object(_, _)
json_object(ms, acc) ==
  IF ms = <<>> THEN acc
  ELSE LET k == IF Head(ms) = "P" THEN "purpose" ELSE "subject_suggestion"
           v == IF Head(ms) = "S" THEN <<"s">>
                ELSE IF Head(ms) = "Z" THEN <<>> ELSE <<"r">>
       IN  json_object(Tail(ms),
             [x \in DOMAIN acc \cup {k} |-> IF x = k THEN v ELSE acc[x]])

\* json.loads: surrounding whitespace is allowed; "{" members "}" is an
\* object, "7" alone is a number, anything else raises.
json_loads(payload) ==
  LET p == strip(payload)
      inner == SubSeq(p, 2, Len(p) - 1)
  IN  IF Len(p) >= 2 /\ p[1] = "{" /\ p[Len(p)] = "}"
         /\ \A i \in 1..Len(inner) : inner[i] \in Members
      THEN [ok |-> TRUE, isdict |-> TRUE, value |-> json_object(inner, <<>>)]
      ELSE IF p = <<"7">>
      THEN [ok |-> TRUE, isdict |-> FALSE, value |-> <<>>]
      ELSE [ok |-> FALSE, isdict |-> FALSE, value |-> <<>>]

\* dict.get(key, default)
dict_get(d, key, default) == IF key \in DOMAIN d THEN d[key] ELSE default

\* the payload handed to json.loads
extract_json(response) ==
  IF contains(response, FenceJson)
  THEN LET json_start == find(response, FenceJson) + FenceJsonLen
           json_end == find_from(response, Fence, json_start)
       IN  strip(slice(response, json_start, json_end))
  ELSE IF contains(response, <<"{">>) /\ contains(response, <<"}">>)
  THEN LET json_start == find(response, <<"{">>)
           json_end == rfind(response, <<"}">>) + 1
       IN  slice(response, json_start, json_end)
  ELSE response

\* mutant: the purpose is not cut
fallback_subject_uncut(purpose) == <<"Regarding: ">> \o purpose \o <<"...">>

\* the fallback of the bare except
fallback_subject(purpose) ==
  <<"Regarding: ">> \o Prefix(purpose, PurposeCut) \o <<"...">>

\* mutant: no except clause, the exception of json.loads or of .get leaves
\* the function
process_requirements_uncaught(brief, response) ==
  LET parsed == json_loads(extract_json(response))
  IN  IF parsed.ok /\ parsed.isdict
      THEN [context |-> parsed.value,
            subject |-> dict_get(parsed.value, "subject_suggestion", <<>>),
            fallback |-> FALSE]
      ELSE [raised |-> TRUE]

\* process_requirements, given the text the provider returned
process_requirements(brief, response) ==
  LET parsed == json_loads(extract_json(response))
  IN  IF parsed.ok /\ parsed.isdict
      THEN [context |-> parsed.value,
            subject |-> dict_get(parsed.value, "subject_suggestion", <<>>),
            fallback |-> FALSE]
      ELSE [context |-> [purpose |-> brief.purpose,
                         subject_suggestion |-> fallback_subject(brief.purpose)],
            subject |-> fallback_subject(brief.purpose),
            fallback |-> TRUE]

\* create_draft, given the text the provider returned
create_draft(brief, context, subject, response) ==
  [draft |-> strip(response), subject |-> subject]

\* improve_draft, given the text the provider returned
improve_draft(original_draft, feedback, brief, response) == strip(response)

\* provider answers to the context prompt: a fenced object inside prose, an
\* object whose subject suggestion is empty, and a failed request
FencedContext ==
  <<"x", " ">> \o FenceJson \o <<"\n", "{", "S", "P", "}", "\n">> \o Fence
EmptySubjectContext == <<"{", "Z", "}">>

\* provider answers to the draft and improvement prompts
DraftResponses == { <<" ", "d", "\n">>, <<" ">>, ApiErrorText }

\* the two answers the provider gives to one "Create Email Draft"
ProviderAnswers ==
  { [context |-> FencedContext, draft |-> <<" ", "d", "\n">>],
    [context |-> EmptySubjectContext, draft |-> <<" ", "d", "\n">>],
    [context |-> FencedContext, draft |-> <<" ">>],
    [context |-> ApiErrorText, draft |-> ApiErrorText] }

(* --------------------------- delivery client -------------------------- *)

\* What the environment does to one delivery attempt: credentials missing
\* from the environment, the SMTP session raising SMTPAuthenticationError,
\* SMTPRecipientsRefused or another exception, or completing.
SmtpOutcomes == {"ok", "no_credentials", "auth", "refused", "other"}

\* mutant: the two specific except clauses are missing, every exception
\* of the SMTP session ends in the last one
EmailService_send_email_unclassified(subject, body, recipients, smtp) ==
  IF smtp = "no_credentials"
  THEN [success |-> FALSE,
        message |-> <<"Email credentials not provided. Check EMAIL_USERNAME and EMAIL_PASSWORD in .env file">>]
  ELSE IF smtp = "ok"
  THEN [success |-> TRUE,
        message |-> <<"Email sent successfully to", Len(recipients), "recipient(s)">>]
  ELSE [success |-> FALSE, message |-> <<"Failed to send email:", "other">>]

\* EmailService.send_email
EmailService_send_email(subject, body, recipients, smtp) ==
  IF smtp = "no_credentials"
  THEN [success |-> FALSE,
        message |-> <<"Email credentials not provided. Check EMAIL_USERNAME and EMAIL_PASSWORD in .env file">>]
  ELSE IF smtp = "ok"
  THEN [success |-> TRUE,
        message |-> <<"Email sent successfully to", Len(recipients), "recipient(s)">>]
  ELSE IF smtp = "auth"
  THEN [success |-> FALSE,
        message |-> <<"Email authentication failed. Check your email and password/app password.">>]
  ELSE IF smtp = "refused"
  THEN [success |-> FALSE,
        message |-> <<"One or more recipients were refused. Check email addresses.">>]
  ELSE [success |-> FALSE, message |-> <<"Failed to send email:", smtp>>]

\* the import of email_service inside UltraSimpleEmailService.send_email
ImportOutcomes == {"imported", "ImportError"}

\* mutant: a failed import is reported as a success
send_email_import_unchecked(subject, body, recipients, import, smtp) ==
  IF import = "ImportError"
  THEN [success |-> TRUE,
        message |-> <<"Email service not available. Create email_service.py file with your email configuration.">>]
  ELSE EmailService_send_email(subject, body, recipients, smtp)

\* UltraSimpleEmailService.send_email
send_email(subject, body, recipients, import, smtp) ==
  IF import = "ImportError"
  THEN [success |-> FALSE,
        message |-> <<"Email service not available. Create email_service.py file with your email configuration.">>]
  ELSE EmailService_send_email(subject, body, recipients, smtp)

\* the transport accepted the message: server.sendmail returned
delivered_by(import, smtp) == import = "imported" /\ smtp = "ok"

(* ------------------------------ database ------------------------------ *)

\* The table email_history is a function from the primary key id to the row.
\* The recipients column holds json.dumps(brief.recipients) and final_email
\* holds json.dumps(final_email) or NULL; the model keeps the value that
\* json.loads gives back, final_email as <<>> (NULL) or <<value>>.

\* mutant: the table is emptied before the row is inserted
save_email_emptying(d, tid, brief, subject, draft, status, t) ==
  [x \in {tid} |->
     [id |-> tid, thread_id |-> tid, recipients |-> brief.recipients,
      subject |-> subject, purpose |-> brief.purpose, tone |-> brief.tone,
      draft |-> draft, final_email |-> <<>>, status |-> status,
      created_at |-> t, updated_at |-> t]]

\* save_email: INSERT OR REPLACE of the whole row; final_email is not among
\* the inserted columns and so is NULL in the new row
save_email(d, tid, brief, subject, draft, status, t) ==
  [x \in DOMAIN d \cup {tid} |->
     IF x = tid
     THEN [id |-> tid, thread_id |-> tid, recipients |-> brief.recipients,
           subject |-> subject, purpose |-> brief.purpose, tone |-> brief.tone,
           draft |-> draft, final_email |-> <<>>, status |-> status,
           created_at |-> t, updated_at |-> t]
     ELSE d[x]]

\* mutant: the UPDATE is never committed
update_email_status_uncommitted(d, tid, status, final_email, t) == d

\* mutant: the UPDATE sets the status and leaves final_email out
update_email_status_no_final(d, tid, status, final_email, t) ==
  [x \in DOMAIN d |->
     IF d[x].thread_id = tid
     THEN [d[x] EXCEPT !.status = status, !.updated_at = t]
     ELSE d[x]]

\* mutant: the UPDATE has no WHERE clause
update_email_status_every_row(d, tid, status, final_email, t) ==
  [x \in DOMAIN d |->
     [d[x] EXCEPT !.status = status, !.final_email = final_email,
                  !.updated_at = t]]

\* update_email_status: UPDATE ... WHERE thread_id = ?; final_email is
\* <<>> for None (or a falsy value) and <<value>> otherwise
update_email_status(d, tid, status, final_email, t) ==
  [x \in DOMAIN d |->
     IF d[x].thread_id = tid
     THEN [d[x] EXCEPT !.status = status, !.final_email = final_email,
                       !.updated_at = t]
     ELSE d[x]]

\* ORDER BY created_at DESC over a set of ids (rows written at the same
\* instant come in an unspecified order)
RECURSIVE order_desc(_, _)
order_desc(d, ids) ==
  IF ids = {} THEN <<>>
  ELSE LET newest == CHOOSE x \in ids :
                       \A y \in ids : d[y].created_at <= d[x].created_at
       IN  <<d[newest]>> \o order_desc(d, ids \ {newest})

\* get_email_history
get_email_history(d) == order_desc(d, DOMAIN d)

\* get_thread_by_id: <<>> for None
get_thread_by_id(d, tid) ==
  IF \E x \in DOMAIN d : d[x].thread_id = tid
  THEN <<d[CHOOSE x \in DOMAIN d : d[x].thread_id = tid]>>
  ELSE <<>>

(* ------------------------------- state -------------------------------- *)

VARIABLES
  current_step,      \* st.session_state.current_step
  current_draft,     \* st.session_state.current_draft
  current_subject,   \* st.session_state.current_subject
  current_brief,     \* st.session_state.current_brief: <<>> or <<brief>>
  thread_id,         \* st.session_state.thread_id
  show_improvement,  \* st.session_state.show_improvement (absent = FALSE)
  db,                \* the table email_history
  uuids,             \* how many uuid4 values have been drawn
  now,               \* datetime.now(), advanced by every database write
  delivered,         \* per thread id, how many messages the transport accepted
  lastOp,            \* the handler that ran last and what it reported
  workflow_step,     \* st.session_state.workflow_step of app.py
  current_thread_id, \* st.session_state.current_thread_id of app.py, 0 = None
  probe              \* the call of process_requirements under examination

vars == <<current_step, current_draft, current_subject, current_brief,
          thread_id, show_improvement, db, uuids, now, delivered, lastOp,
          workflow_step, current_thread_id, probe>>

session == <<current_step, current_draft, current_subject, current_brief,
             thread_id, show_improvement>>

ThreadIds == 1..MaxThreads

\* history[:5] in the sidebar
HistoryShown == 5

\* The record of one run of a handler that calls the service: the button,
\* the thread it ran on, what it showed the user, how many generation calls
\* it made, the mail it handed to the transport (<<>> or <<mail>>), what it
\* read (the form or the feedback, followed by the provider's answer when a
\* generation call was made) and, for "send", what the run before it was
\* when that was a run on the same thread ("create", "failed" or "other").
Ran(op, outcome, gen, mail, input) ==
  [op |-> op, thread |-> thread_id, outcome |-> outcome, gen |-> gen,
   mail |-> mail, input |-> input,
   after |-> IF op # "send" \/ lastOp.thread # thread_id THEN "other"
             ELSE IF lastOp.op = "create" /\ lastOp.gen > 0 THEN "create"
             ELSE IF lastOp.op = "send" /\ lastOp.outcome = "failed" THEN "failed"
             ELSE "other"]

\* the record left by a handler that only changes the session
Other == [op |-> "other", thread |-> 0, outcome |-> "ok", gen |-> 0,
          mail |-> <<>>, input |-> <<>>, after |-> "other"]

EmailBrief(recipients, purpose, tone, constraints) ==
  [recipients |-> recipients, purpose |-> purpose, tone |-> tone,
   constraints |-> constraints]

Init ==
  /\ current_step = "create"
  /\ current_draft = <<>>
  /\ current_subject = <<>>
  /\ current_brief = <<>>
  /\ thread_id = 1
  /\ show_improvement = FALSE
  /\ db = <<>>
  /\ uuids = 1
  /\ now = 0
  /\ delivered = [t \in ThreadIds |-> 0]
  /\ lastOp = Other
  /\ workflow_step = "start"
  /\ current_thread_id = 0
  /\ probe = <<>>

\* the four assignments that reset the session, with a fresh uuid4
ResetSession ==
  /\ uuids < MaxThreads
  /\ uuids' = uuids + 1
  /\ thread_id' = uuids + 1
  /\ current_step' = "create"
  /\ current_draft' = <<>>
  /\ current_subject' = <<>>
  /\ current_brief' = <<>>

(* ------------------------- the create form ---------------------------- *)

\* not recipients.strip(), src line 124
recipients_missing(recipients) == strip(recipients) = <<>>

\* mutant: the purpose is tested without strip()
purpose_missing_unstripped(purpose) == purpose = <<>>

\* not purpose.strip(), src line 127
purpose_missing(purpose) == strip(purpose) = <<>>

\* the list comprehension of src line 131
recipient_list_of(recipients) ==
  strip_nonblank(split_lines(recipients, <<>>))

\* "Create Email Draft"
CreateEmailDraft ==
  /\ current_step = "create"
  /\ \E form \in Forms,
        answer \in ProviderAnswers :
       LET ctx_response == answer.context
           draft_response == answer.draft
           recipients == form.recipients
           purpose == form.purpose
           tone == form.tone
           constraints == IF form.constraints # <<>> THEN form.constraints
                          ELSE <<>>
       IN
       IF recipients_missing(recipients)
       THEN /\ lastOp' = Ran("create", "Please enter at least one recipient",
                             0, <<>>, <<form>>)
            /\ UNCHANGED <<session, db, uuids, now, delivered>>
       ELSE IF purpose_missing(purpose)
       THEN /\ lastOp' = Ran("create", "Please describe the email purpose",
                             0, <<>>, <<form>>)
            /\ UNCHANGED <<session, db, uuids, now, delivered>>
       ELSE LET recipient_list == recipient_list_of(recipients)
                brief == EmailBrief(recipient_list, purpose, tone, constraints)
                req_result == process_requirements(brief, ctx_response)
                draft_result == create_draft(brief, req_result.context,
                                             req_result.subject, draft_response)
            IN  /\ now < MaxClock
                /\ current_brief' = <<brief>>
                /\ current_draft' = draft_result.draft
                /\ current_subject' = draft_result.subject
                /\ current_step' = "review"
                /\ db' = save_email(db, thread_id, brief, draft_result.subject,
                                    draft_result.draft, "draft", now + 1)
                /\ now' = now + 1
                /\ lastOp' = Ran("create", "Draft created successfully!", 2,
                                 <<>>, <<form, answer>>)
                /\ UNCHANGED <<thread_id, show_improvement, uuids, delivered>>
  /\ UNCHANGED <<workflow_step, current_thread_id, probe>>

\* "Clear Form"
ClearForm ==
  /\ current_step = "create"
  /\ ResetSession
  /\ lastOp' = Other
  /\ UNCHANGED <<show_improvement, db, now, delivered>>
  /\ UNCHANGED <<workflow_step, current_thread_id, probe>>

(* ---------------------------- the sidebar ----------------------------- *)

\* "Load" on one of the history entries shown
LoadFromHistory ==
  /\ \E i \in 1..HistoryShown :
       /\ i <= Len(get_email_history(db))
       /\ LET email == get_email_history(db)[i]
          IN  /\ current_draft' = email.draft
              /\ current_subject' = email.subject
              /\ thread_id' = email.thread_id
              /\ current_step' = "review"
              /\ lastOp' = Other
  /\ UNCHANGED <<current_brief, show_improvement, db, uuids, now, delivered>>
  /\ UNCHANGED <<workflow_step, current_thread_id, probe>>

(* ------------------------- the review form ---------------------------- *)

\* the form gets past "No draft found" and shows its two text inputs
ReviewShown == current_step = "review" /\ current_draft # <<>>

\* the preview dereferences current_brief.recipients: with no brief in the
\* session the script run ends there and no button below it is drawn
ReviewButtons == ReviewShown /\ current_brief # <<>>

\* typing into "Subject Line:"
EditSubject ==
  /\ ReviewShown
  /\ \E new_subject \in SubjectTexts :
       /\ new_subject # current_subject
       /\ current_subject' = new_subject
  /\ lastOp' = Other
  /\ UNCHANGED <<current_step, current_draft, current_brief, thread_id,
                 show_improvement, db, uuids, now, delivered>>
  /\ UNCHANGED <<workflow_step, current_thread_id, probe>>

\* typing into "Email Body:"
EditBody ==
  /\ ReviewShown
  /\ \E new_draft \in BodyTexts :
       /\ new_draft # current_draft
       /\ current_draft' = new_draft
  /\ lastOp' = Other
  /\ UNCHANGED <<current_step, current_subject, current_brief, thread_id,
                 show_improvement, db, uuids, now, delivered>>
  /\ UNCHANGED <<workflow_step, current_thread_id, probe>>

\* "Back to Create" under "No draft found"
BackToCreate ==
  /\ current_step = "review"
  /\ current_draft = <<>>
  /\ current_step' = "create"
  /\ lastOp' = Other
  /\ UNCHANGED <<current_draft, current_subject, current_brief, thread_id,
                 show_improvement, db, uuids, now, delivered>>
  /\ UNCHANGED <<workflow_step, current_thread_id, probe>>

\* mutant: the body is filled from the subject
FinalEmail_swapped(subject, body, recipients) ==
  [subject |-> subject, body |-> subject, recipients |-> recipients]

\* the final_email dict built at src lines 242-246
FinalEmail(subject, body, recipients) ==
  [subject |-> subject, body |-> body, recipients |-> recipients]

\* mutant: the subject is not tested
subject_missing_untested(new_subject) == FALSE

\* not new_subject.strip(), src line 222
subject_missing(new_subject) == strip(new_subject) = <<>>

\* not new_draft.strip(), src line 225
body_missing(new_draft) == strip(new_draft) = <<>>

\* "Send Email"
SendEmail ==
  /\ ReviewButtons
  /\ LET new_subject == current_subject
         new_draft == current_draft
         brief == current_brief[1]
         \* the arguments of email_service.send_email, src lines 232-236
         mail == [subject |-> new_subject, body |-> new_draft,
                  recipients |-> brief.recipients]
         final_email == FinalEmail(new_subject, new_draft, brief.recipients)
     IN  IF subject_missing(new_subject)
         THEN /\ lastOp' = Ran("send", "Please add a subject line", 0, <<>>, <<>>)
              /\ UNCHANGED <<session, db, uuids, now, delivered>>
         ELSE IF body_missing(new_draft)
         THEN /\ lastOp' = Ran("send", "Email body cannot be empty", 0, <<>>, <<>>)
              /\ UNCHANGED <<session, db, uuids, now, delivered>>
         ELSE \E import \in ImportOutcomes, smtp \in SmtpOutcomes :
                LET result == send_email(new_subject, new_draft,
                                         brief.recipients, import, smtp)
                IN  /\ delivered' =
                         IF delivered_by(import, smtp)
                         THEN [delivered EXCEPT ![thread_id] = @ + 1]
                         ELSE delivered
                    /\ IF result.success
                       THEN /\ now < MaxClock
                            /\ db' = update_email_status(db, thread_id, "sent",
                                                         <<final_email>>,
                                                         now + 1)
                            /\ now' = now + 1
                            /\ current_step' = "sent"
                            /\ lastOp' = Ran("send", "sent", 0, <<mail>>, <<>>)
                            /\ UNCHANGED <<current_draft, current_subject,
                                           current_brief, thread_id,
                                           show_improvement, uuids>>
                       ELSE /\ lastOp' = Ran("send", "failed", 0, <<mail>>, <<>>)
                            /\ UNCHANGED <<session, db, uuids, now>>
  /\ UNCHANGED <<workflow_step, current_thread_id, probe>>

\* "Improve Draft"
ImproveDraft ==
  /\ ReviewButtons
  /\ show_improvement' = TRUE
  /\ lastOp' = Other
  /\ UNCHANGED <<current_step, current_draft, current_subject, current_brief,
                 thread_id, db, uuids, now, delivered>>
  /\ UNCHANGED <<workflow_step, current_thread_id, probe>>

\* mutant: the feedback is tested without strip()
feedback_missing_unstripped(feedback) == feedback = <<>>

\* not feedback.strip(), src line 300
feedback_missing(feedback) == strip(feedback) = <<>>

\* "Apply Improvements"
ApplyImprovements ==
  /\ ReviewButtons
  /\ show_improvement
  /\ \E feedback \in FeedbackTexts, response \in DraftResponses :
       IF feedback_missing(feedback)
       THEN /\ lastOp' = Ran("apply", "Please describe what you'd like to improve",
                             0, <<>>, <<feedback>>)
            /\ UNCHANGED <<session, db, uuids, now, delivered>>
       ELSE /\ current_draft' = improve_draft(current_draft, feedback,
                                              current_brief[1], response)
            /\ show_improvement' = FALSE
            /\ lastOp' = Ran("apply", "Draft improved!", 1, <<>>,
                             <<feedback, response>>)
            /\ UNCHANGED <<current_step, current_subject, current_brief,
                           thread_id, db, uuids, now, delivered>>
  /\ UNCHANGED <<workflow_step, current_thread_id, probe>>

\* "Cancel" in the improvement section
CancelImprovement ==
  /\ ReviewButtons
  /\ show_improvement
  /\ show_improvement' = FALSE
  /\ lastOp' = Other
  /\ UNCHANGED <<current_step, current_draft, current_subject, current_brief,
                 thread_id, db, uuids, now, delivered>>
  /\ UNCHANGED <<workflow_step, current_thread_id, probe>>

\* "Save Draft"
SaveDraft ==
  /\ ReviewButtons
  /\ now < MaxClock
  /\ db' = save_email(db, thread_id, current_brief[1], current_subject,
                      current_draft, "saved", now + 1)
  /\ now' = now + 1
  /\ lastOp' = Ran("save", "Draft saved!", 0, <<>>, <<>>)
  /\ UNCHANGED <<session, uuids, delivered>>
  /\ UNCHANGED <<workflow_step, current_thread_id, probe>>

\* "Start Over"
StartOver ==
  /\ ReviewButtons
  /\ ResetSession
  /\ lastOp' = Other
  /\ UNCHANGED <<show_improvement, db, now, delivered>>
  /\ UNCHANGED <<workflow_step, current_thread_id, probe>>

(* --------------------------- the sent page ---------------------------- *)

\* "Create Another Email"
CreateAnotherEmail ==
  /\ current_step = "sent"
  /\ ResetSession
  /\ lastOp' = Other
  /\ UNCHANGED <<show_improvement, db, now, delivered>>
  /\ UNCHANGED <<workflow_step, current_thread_id, probe>>

\* "View History"
ViewHistory ==
  /\ current_step = "sent"
  /\ current_step' = "create"
  /\ lastOp' = Other
  /\ UNCHANGED <<current_draft, current_subject, current_brief, thread_id,
                 show_improvement, db, uuids, now, delivered>>
  /\ UNCHANGED <<workflow_step, current_thread_id, probe>>

(* ---------------------------- a new session --------------------------- *)

\* A browser session that starts afresh: main() finds none of its keys in
\* st.session_state and initialises them; the database file is kept.
NewSession ==
  /\ ResetSession
  /\ show_improvement' = FALSE
  /\ lastOp' = Other
  /\ UNCHANGED <<db, now, delivered>>
  /\ UNCHANGED <<workflow_step, current_thread_id, probe>>

Next ==
  \/ CreateEmailDraft
  \/ ClearForm
  \/ LoadFromHistory
  \/ EditSubject
  \/ EditBody
  \/ BackToCreate
  \/ SendEmail
  \/ ImproveDraft
  \/ ApplyImprovements
  \/ CancelImprovement
  \/ SaveDraft
  \/ StartOver
  \/ CreateAnotherEmail
  \/ ViewHistory
  \/ NewSession

Spec == Init /\ [][Next]_vars

\* the mails handed to send_email
MailRecipients == { << <<"a">> >>, << <<"b">>, <<"a">> >>, << <<"w">> >> }

(* ----------------- EmailService.send_email step by step --------------- *)

\* The statements of EmailService.send_email that can raise, in the order
\* the method runs them: building the MIME message, smtplib.SMTP(...),
\* starttls (use_tls is True for the provider of the module's instance),
\* login, sendmail, and the QUIT sent when the with statement is left.
SessionSteps == <<"message", "connect", "starttls", "login", "sendmail", "quit">>

\* what each step can do: return, or raise an exception of the class named
StepOutcomes(step) ==
  IF step = "login" THEN {"ok", "SMTPAuthenticationError", "Exception"}
  ELSE IF step = "sendmail" THEN {"ok", "SMTPRecipientsRefused", "Exception"}
  ELSE {"ok", "Exception"}

StepNames == { SessionSteps[i] : i \in DOMAIN SessionSteps }

Sessions ==
  { s \in [StepNames -> {"ok", "SMTPAuthenticationError",
                         "SMTPRecipientsRefused", "Exception"}] :
      \A step \in StepNames : s[step] \in StepOutcomes(step) }

\* EMAIL_USERNAME and EMAIL_PASSWORD: set to a non-empty value or not
Credentials == [username : BOOLEAN, password : BOOLEAN]

\* the first step of the run that raises, 0 when none does
first_failure(smtp_session) ==
  LET failing == { i \in DOMAIN SessionSteps : smtp_session[SessionSteps[i]] # "ok" }
  IN  IF failing = {} THEN 0
      ELSE CHOOSE i \in failing : \A j \in failing : i <= j

\* the exception that leaves the try block, "none" when the block returns:
\* an exception raised inside the with statement is replaced by the one the
\* QUIT of SMTP.__exit__ raises, when it raises one
escaping(smtp_session) ==
  LET at == first_failure(smtp_session)
  IN  IF at = 0 THEN "none"
      ELSE IF at \in {3, 4, 5} /\ smtp_session["quit"] # "ok" THEN smtp_session["quit"]
      ELSE smtp_session[SessionSteps[at]]

\* mutant: the credentials are not tested
EmailService_send_email_run_unguarded(credentials, recipients, smtp_session) ==
  LET at == first_failure(smtp_session)
      exc == escaping(smtp_session)
      opened == at = 0 \/ at >= 2
      logged_in == at = 0 \/ at > 4
      sent == at = 0 \/ at > 5
      done(success, message) ==
        [raised |-> FALSE, success |-> success, message |-> message,
         opened |-> opened, logged_in |-> logged_in, sent |-> sent]
  IN  IF exc = "none"
      THEN done(TRUE, <<"Email sent successfully to", Len(recipients), "recipient(s)">>)
      ELSE IF exc = "SMTPAuthenticationError"
      THEN done(FALSE, <<"Email authentication failed. Check your email and password/app password.">>)
      ELSE IF exc = "SMTPRecipientsRefused"
      THEN done(FALSE, <<"One or more recipients were refused. Check email addresses.">>)
      ELSE IF exc = "Exception"
      THEN done(FALSE, <<"Failed to send email:", exc>>)
      ELSE [raised |-> TRUE, success |-> FALSE, message |-> <<>>,
            opened |-> opened, logged_in |-> logged_in, sent |-> sent]

\* EmailService.send_email: the dict returned (or raised = TRUE when an
\* exception leaves the method), with what the run did to the transport:
\* opened (smtplib.SMTP was called), logged_in and sent (login and sendmail
\* returned)
EmailService_send_email_run(credentials, recipients, smtp_session) ==
  LET at == first_failure(smtp_session)
      exc == escaping(smtp_session)
      opened == at = 0 \/ at >= 2
      logged_in == at = 0 \/ at > 4
      sent == at = 0 \/ at > 5
      done(success, message) ==
        [raised |-> FALSE, success |-> success, message |-> message,
         opened |-> opened, logged_in |-> logged_in, sent |-> sent]
  IN  IF ~credentials.username \/ ~credentials.password
      THEN [raised |-> FALSE, success |-> FALSE,
            message |-> <<"Email credentials not provided. Check EMAIL_USERNAME and EMAIL_PASSWORD in .env file">>,
            opened |-> FALSE, logged_in |-> FALSE, sent |-> FALSE]
      ELSE IF exc = "none"
      THEN done(TRUE, <<"Email sent successfully to", Len(recipients), "recipient(s)">>)
      ELSE IF exc = "SMTPAuthenticationError"
      THEN done(FALSE, <<"Email authentication failed. Check your email and password/app password.">>)
      ELSE IF exc = "SMTPRecipientsRefused"
      THEN done(FALSE, <<"One or more recipients were refused. Check email addresses.">>)
      ELSE IF exc = "Exception"
      THEN done(FALSE, <<"Failed to send email:", exc>>)
      ELSE [raised |-> TRUE, success |-> FALSE, message |-> <<>>,
            opened |-> opened, logged_in |-> logged_in, sent |-> sent]

\* UltraSimpleEmailService.send_email around it: the import, the call, and
\* the two except clauses
send_email_run(credentials, recipients, import, smtp_session) ==
  IF import = "ImportError"
  THEN [raised |-> FALSE, success |-> FALSE,
        message |-> <<"Email service not available. Create email_service.py file with your email configuration.">>,
        opened |-> FALSE, logged_in |-> FALSE, sent |-> FALSE]
  ELSE LET result == EmailService_send_email_run(credentials, recipients, smtp_session)
       IN  IF result.raised
           THEN [result EXCEPT !.raised = FALSE, !.success = FALSE,
                               !.message = <<"Error sending email:", "exception">>]
           ELSE result

\* One call of send_email under examination: the environment's credentials,
\* the recipients, what the import and each step of the session do, and the
\* results of the inner and of the outer method.
SessionInit ==
  /\ probe \in { [stage |-> "asked", credentials |-> c, recipients |-> r,
                  import |-> i, steps |-> s, inner |-> <<>>,
                  result |-> <<>>] :
                 c \in Credentials, r \in MailRecipients,
                 i \in ImportOutcomes, s \in Sessions }
  /\ db = <<>>
  /\ now = 0
  /\ current_step = "create"
  /\ current_draft = <<>>
  /\ current_subject = <<>>
  /\ current_brief = <<>>
  /\ thread_id = 1
  /\ show_improvement = FALSE
  /\ uuids = 1
  /\ delivered = [t \in ThreadIds |-> 0]
  /\ lastOp = Other
  /\ workflow_step = "start"
  /\ current_thread_id = 0

\* result = email_service.send_email(subject, body, recipients)
CallSendEmailRun ==
  /\ probe.stage = "asked"
  /\ probe' = [probe EXCEPT
                 !.stage = "returned",
                 !.inner = IF probe.import = "imported"
                           THEN <<EmailService_send_email_run(
                                    probe.credentials, probe.recipients,
                                    probe.steps)>>
                           ELSE <<>>,
                 !.result = <<send_email_run(probe.credentials,
                                             probe.recipients, probe.import,
                                             probe.steps)>>]
  /\ UNCHANGED <<session, db, uuids, now, delivered, lastOp, workflow_step,
                 current_thread_id>>

SessionNext == CallSendEmailRun

SessionSpec == SessionInit /\ [][SessionNext]_vars

(* ------------- process_requirements over provider responses ----------- *)

\* how many pieces a provider response is put together from
MaxPieces == 4

\* what a response is made of: the fence markers, a lone backtick, braces,
\* an object member, a number, whitespace and prose
Pieces ==
  { FenceJson, Fence, <<"#">>, <<"{">>, <<"}">>, <<"S">>, <<"7">>, <<" ">>,
    <<"x">> }

RECURSIVE Responses(_)
Responses(n) ==
  IF n = 0 THEN { <<>> }
  ELSE LET shorter == Responses(n - 1)
       IN  shorter \cup { r \o piece : r \in shorter, piece \in Pieces }

\* a purpose shorter than the cut and one that is one character longer
Purposes == { <<"p">>, [i \in 1..(PurposeCut + 1) |-> "p"] }

\* One call under examination: the provider's response to the context
\* prompt, the brief's purpose, and what came of it.
ExtractInit ==
  /\ current_step = "create"
  /\ current_draft = <<>>
  /\ current_subject = <<>>
  /\ current_brief = <<>>
  /\ thread_id = 1
  /\ show_improvement = FALSE
  /\ db = <<>>
  /\ uuids = 1
  /\ now = 0
  /\ delivered = [t \in ThreadIds |-> 0]
  /\ lastOp = Other
  /\ workflow_step = "start"
  /\ current_thread_id = 0
  /\ probe \in { [stage |-> "asked", response |-> r, purpose |-> p,
                  payload |-> <<>>, result |-> <<>>, draft |-> <<>>] :
                 r \in Responses(MaxPieces), p \in Purposes }

\* req_result = email_service.process_requirements(brief); an exception
\* ends the handler in its except branch
CallProcessRequirements ==
  /\ probe.stage = "asked"
  /\ LET brief == EmailBrief(<< <<"a">> >>, probe.purpose, "professional", <<>>)
         req_result == process_requirements(brief, probe.response)
     IN  probe' = [probe EXCEPT
                     !.stage = IF "subject" \in DOMAIN req_result
                               THEN "extracted" ELSE "error",
                     !.payload = <<extract_json(probe.response)>>,
                     !.result = <<req_result>>]
  /\ UNCHANGED <<session, db, uuids, now, delivered, lastOp, workflow_step,
                 current_thread_id>>

\* draft_result = email_service.create_draft(brief, context, subject)
CallCreateDraft ==
  /\ probe.stage = "extracted"
  /\ \E response \in DraftResponses :
       LET brief == EmailBrief(<< <<"a">> >>, probe.purpose, "professional", <<>>)
           req_result == probe.result[1]
           draft_result == create_draft(brief, req_result.context,
                                        req_result.subject, response)
       IN  probe' = [probe EXCEPT !.stage = "drafted",
                                  !.draft = <<draft_result>>]
  /\ UNCHANGED <<session, db, uuids, now, delivered, lastOp, workflow_step,
                 current_thread_id>>

ExtractNext ==
  \/ CallProcessRequirements
  \/ CallCreateDraft

ExtractSpec == ExtractInit /\ [][ExtractNext]_vars

(* ---------------------- one delivery attempt -------------------------- *)


\* One call of UltraSimpleEmailService.send_email under examination: the
\* mail, what the import and the SMTP session do, and the result.
DeliveryInit ==
  /\ probe \in { [stage |-> "asked", subject |-> s, body |-> b,
                  recipients |-> r, import |-> i, smtp |-> o,
                  result |-> <<>>] :
                 s \in SubjectTexts \cup {<<>>}, b \in BodyTexts,
                 r \in MailRecipients, i \in ImportOutcomes,
                 o \in SmtpOutcomes }
  /\ db = <<>>
  /\ now = 0
  /\ current_step = "create"
  /\ current_draft = <<>>
  /\ current_subject = <<>>
  /\ current_brief = <<>>
  /\ thread_id = 1
  /\ show_improvement = FALSE
  /\ uuids = 1
  /\ delivered = [t \in ThreadIds |-> 0]
  /\ lastOp = Other
  /\ workflow_step = "start"
  /\ current_thread_id = 0

\* result = email_service.send_email(subject, body, recipients)
CallSendEmail ==
  /\ probe.stage = "asked"
  /\ probe' = [probe EXCEPT
                 !.stage = "returned",
                 !.result = <<send_email(probe.subject, probe.body,
                                         probe.recipients, probe.import,
                                         probe.smtp)>>]
  /\ UNCHANGED <<session, db, uuids, now, delivered, lastOp, workflow_step,
                 current_thread_id>>

DeliveryNext == CallSendEmail

DeliverySpec == DeliveryInit /\ [][DeliveryNext]_vars

(* ------------------ the service's store operations ------------------- *)

\* UltraSimpleEmailService called directly, with any thread id: probe holds
\* the last call, whether its thread id had a row when it was made, whether
\* it raised and what it returned, and for every thread id the time of its
\* first save (0 = never saved).  None of the three methods has a raise
\* statement or reads the cursor's rowcount.

\* the brief, subject and draft the caller saves
StoreBrief == EmailBrief(<< <<"a">> >>, <<"p">>, "professional", <<>>)

StoreInit ==
  /\ db = <<>>
  /\ now = 0
  /\ probe = [op |-> "none", tid |-> 0, known |-> FALSE, raised |-> FALSE,
              result |-> <<>>, born |-> [t \in ThreadIds |-> 0]]
  /\ current_step = "create"
  /\ current_draft = <<>>
  /\ current_subject = <<>>
  /\ current_brief = <<>>
  /\ thread_id = 1
  /\ show_improvement = FALSE
  /\ uuids = 1
  /\ delivered = [t \in ThreadIds |-> 0]
  /\ lastOp = Other
  /\ workflow_step = "start"
  /\ current_thread_id = 0

\* email_service.save_email(thread_id, brief, subject, draft, status)
CallSaveEmail ==
  /\ now < MaxClock
  /\ \E tid \in ThreadIds, status \in {"draft", "saved"} :
       /\ db' = save_email(db, tid, StoreBrief, <<"t">>, <<"d">>, status, now + 1)
       /\ probe' = [op |-> "save", tid |-> tid, known |-> tid \in DOMAIN db,
                    raised |-> FALSE, result |-> <<>>,
                    born |-> IF tid \in DOMAIN db THEN probe.born
                             ELSE [probe.born EXCEPT ![tid] = now + 1]]
  /\ now' = now + 1
  /\ UNCHANGED <<session, uuids, delivered, lastOp, workflow_step,
                 current_thread_id>>

\* email_service.update_email_status(thread_id, status, final_email)
CallUpdateEmailStatus ==
  /\ now < MaxClock
  /\ \E tid \in ThreadIds,
        final_email \in {<<>>, <<FinalEmail(<<"t">>, <<"d">>, << <<"a">> >>)>>} :
       /\ db' = update_email_status(db, tid, "sent", final_email, now + 1)
       /\ probe' = [op |-> "update", tid |-> tid, known |-> tid \in DOMAIN db,
                    raised |-> FALSE, result |-> <<>>, born |-> probe.born]
  /\ now' = now + 1
  /\ UNCHANGED <<session, uuids, delivered, lastOp, workflow_step,
                 current_thread_id>>

\* email_service.get_thread_by_id(thread_id)
CallGetThreadById ==
  /\ \E tid \in ThreadIds :
       probe' = [op |-> "get", tid |-> tid, known |-> tid \in DOMAIN db,
                 raised |-> FALSE, result |-> get_thread_by_id(db, tid),
                 born |-> probe.born]
  /\ UNCHANGED <<db, now, session, uuids, delivered, lastOp, workflow_step,
                 current_thread_id>>

StoreNext ==
  \/ CallSaveEmail
  \/ CallUpdateEmailStatus
  \/ CallGetThreadById

StoreSpec == StoreInit /\ [][StoreNext]_vars

(* ------------------ app.py and the workflow engine -------------------- *)

\* app.py drives SimpleEmailDraftingService of the module simple_backend,
\* which the repository does not contain.  The engine below is the
\* WorkflowEngine of the specification (states created, context_ready,
\* draft_ready, approved, sent, send_failed, rejected); it keeps its threads
\* in db.  Each call returns the new store, the error it fails with ("none"
\* when it succeeds) and what app.py reads from the result.

\* number of clock readings taken by the engine's writes
MaxEngineClock == 4

\* history[:10] in the sidebar of app.py
AppHistoryShown == 10

\* what the provider does to one generation call of the engine
ContextOutcomes ==
  { [ok |-> TRUE, text |-> FencedContext], [ok |-> FALSE, text |-> <<>>] }
DraftOutcomes ==
  { [ok |-> TRUE, text |-> <<" ", "d", "\n">>], [ok |-> FALSE, text |-> <<>>] }

\* the validation of start
valid_brief(brief) ==
  /\ brief.recipients # <<>>
  /\ \A i \in DOMAIN brief.recipients :
       brief.recipients[i] \in WellFormedAddresses
  /\ strip(brief.purpose) # <<>>

\* the thread persisted by start
engine_thread(tid, brief, t) ==
  [id |-> tid, thread_id |-> tid, recipients |-> brief.recipients,
   subject |-> <<>>, purpose |-> brief.purpose, tone |-> brief.tone,
   draft |-> <<>>, revision |-> 0, final_email |-> <<>>,
   status |-> "created", error |-> "none", created_at |-> t, updated_at |-> t]

\* ThreadStore.update of one thread
store_update(d, tid, row) == [x \in DOMAIN d \cup {tid} |-> IF x = tid THEN row ELSE d[x]]

\* email_service.run_workflow(brief): start
run_workflow(d, tid, brief, outcome, t) ==
  IF ~valid_brief(brief)
  THEN [store |-> d, error |-> "ValidationError", thread_id |-> 0]
  ELSE IF ~outcome.ok
  THEN [store |-> store_update(d, tid,
                    [engine_thread(tid, brief, t) EXCEPT !.error = "ProviderError"]),
        error |-> "ProviderError", thread_id |-> 0]
  ELSE [store |-> store_update(d, tid,
                    [engine_thread(tid, brief, t) EXCEPT
                       !.status = "context_ready",
                       !.subject = process_requirements(brief, outcome.text).subject]),
        error |-> "none", thread_id |-> tid]

\* email_service.continue_workflow(thread_id, decision, feedback):
\* approveContext from context_ready, approveDraft followed by send from
\* draft_ready, requestChanges from draft_ready
continue_workflow(d, tid, decision, feedback, outcome, smtp, t) ==
  IF tid \notin DOMAIN d
  THEN [store |-> d, error |-> "NotFoundError", draft |-> <<>>, subject |-> <<>>]
  ELSE LET row == d[tid]
           brief == EmailBrief(row.recipients, row.purpose, row.tone, <<>>)
       IN
       IF decision = "approved" /\ row.status = "context_ready"
       THEN IF ~outcome.ok
            THEN [store |-> d, error |-> "ProviderError", draft |-> <<>>,
                  subject |-> <<>>]
            ELSE [store |-> store_update(d, tid,
                              [row EXCEPT !.status = "draft_ready",
                                          !.draft = strip(outcome.text),
                                          !.revision = 0, !.updated_at = t]),
                  error |-> "none", draft |-> strip(outcome.text),
                  subject |-> row.subject]
       ELSE IF decision = "approved" /\ row.status = "draft_ready"
       THEN LET final_email == FinalEmail(row.subject, row.draft, row.recipients)
                result == EmailService_send_email(row.subject, row.draft,
                                                  row.recipients, smtp)
            IN  [store |-> store_update(d, tid,
                             [row EXCEPT
                                !.status = IF result.success THEN "sent"
                                           ELSE "send_failed",
                                !.error = IF result.success THEN "none"
                                          ELSE "DeliveryError",
                                !.final_email = <<final_email>>,
                                !.updated_at = t]),
                 error |-> "none", draft |-> row.draft, subject |-> row.subject]
       ELSE IF decision = "needs_changes" /\ row.status = "draft_ready"
               /\ strip(feedback) # <<>>
       THEN IF ~outcome.ok
            THEN [store |-> d, error |-> "ProviderError", draft |-> <<>>,
                  subject |-> <<>>]
            ELSE [store |-> store_update(d, tid,
                              [row EXCEPT !.draft = strip(outcome.text),
                                          !.revision = @ + 1,
                                          !.updated_at = t]),
                  error |-> "none", draft |-> strip(outcome.text),
                  subject |-> row.subject]
       ELSE [store |-> d, error |-> "InvalidStateError", draft |-> <<>>,
             subject |-> <<>>]

\* email_service.update_email_status({'thread_id': ...}, status)
engine_update_email_status(d, tid, status, t) ==
  [x \in DOMAIN d |->
     IF x = tid THEN [d[x] EXCEPT !.status = status, !.error = "none",
                                  !.updated_at = t]
     ELSE d[x]]

\* the session keys and the store app.py works on
app_session == <<workflow_step, current_thread_id, current_draft, current_subject>>

\* what app.py leaves alone: the keys of ultra_simple_app.py and the probe
app_frame == <<current_step, current_brief, thread_id, show_improvement, probe>>

\* the record of one run of a handler of app.py that calls the transport:
\* the button, the session's thread, what it showed, how many generation
\* calls it made and the mail it handed to the transport
AppRan(op, outcome, gen, mail) ==
  [op |-> op, thread |-> current_thread_id, outcome |-> outcome, gen |-> gen,
   mail |-> mail, input |-> <<>>, after |-> "other"]

AppInit ==
  /\ workflow_step = "start"
  /\ current_thread_id = 0
  /\ current_draft = <<>>
  /\ current_subject = <<>>
  /\ db = <<>>
  /\ uuids = 0
  /\ now = 0
  /\ delivered = [t \in ThreadIds |-> 0]
  /\ current_step = "create"
  /\ current_brief = <<>>
  /\ thread_id = 1
  /\ show_improvement = FALSE
  /\ lastOp = Other
  /\ probe = <<>>

\* the creation form is drawn
CreationFormShown == workflow_step \in {"start", "loaded_from_history"}

\* "Create Email Draft" of app.py; an exception of run_workflow ends the
\* script run before the session is written
SubmitBrief ==
  /\ CreationFormShown
  /\ \E form \in Forms, outcome \in ContextOutcomes :
       IF strip(form.recipients) = <<>> \/ strip(form.purpose) = <<>>
       THEN UNCHANGED <<app_session, db, uuids, now, delivered>>
       ELSE LET recipient_list == recipient_list_of(form.recipients)
                brief == EmailBrief(recipient_list, form.purpose, form.tone,
                                    form.constraints)
                started == run_workflow(db, uuids + 1, brief, outcome, now + 1)
            IN  /\ uuids < MaxThreads
                /\ now < MaxEngineClock
                /\ db' = started.store
                /\ uuids' = IF started.error = "ValidationError" THEN uuids
                            ELSE uuids + 1
                /\ now' = IF started.error = "ValidationError" THEN now
                          ELSE now + 1
                /\ IF started.error = "none"
                   THEN /\ current_thread_id' = started.thread_id
                        /\ workflow_step' = "awaiting_permission"
                   ELSE UNCHANGED <<current_thread_id, workflow_step>>
                /\ UNCHANGED <<current_draft, current_subject, delivered>>
  /\ UNCHANGED app_frame
  /\ lastOp' = Other

\* "New Email"
NewEmail ==
  /\ CreationFormShown
  /\ current_thread_id' = 0
  /\ workflow_step' = "start"
  /\ current_draft' = <<>>
  /\ current_subject' = <<>>
  /\ UNCHANGED <<db, uuids, now, delivered, app_frame>>
  /\ lastOp' = Other

\* "Load Thread" in the sidebar, which every step draws
LoadThread ==
  /\ \E i \in 1..AppHistoryShown :
       /\ i <= Len(get_email_history(db))
       /\ LET email == get_email_history(db)[i]
              thread_data == get_thread_by_id(db, email.thread_id)
          IN  /\ current_thread_id' = email.thread_id
              /\ IF thread_data # <<>>
                 THEN /\ current_draft' = thread_data[1].draft
                      /\ current_subject' = thread_data[1].subject
                      /\ workflow_step' = "loaded_from_history"
                 ELSE UNCHANGED <<current_draft, current_subject, workflow_step>>
  /\ UNCHANGED <<db, uuids, now, delivered, app_frame>>
  /\ lastOp' = Other

\* the permission form draws its two buttons
PermissionShown == workflow_step = "awaiting_permission" /\ current_thread_id # 0

\* "Approve - Create Draft"; an exception is caught by the form's except
\* branch, which sets the step back to start
ApproveCreateDraft ==
  /\ PermissionShown
  /\ now < MaxEngineClock
  /\ \E outcome \in DraftOutcomes :
       LET result == continue_workflow(db, current_thread_id, "approved", <<>>,
                                       outcome, "ok", now + 1)
       IN  IF result.error = "none"
           THEN /\ db' = result.store
                /\ now' = now + 1
                /\ current_draft' = result.draft
                /\ current_subject' = result.subject
                /\ workflow_step' = "awaiting_approval"
                /\ UNCHANGED current_thread_id
           ELSE /\ workflow_step' = "start"
                /\ UNCHANGED <<db, now, current_draft, current_subject,
                               current_thread_id>>
  /\ UNCHANGED <<uuids, delivered, app_frame>>
  /\ lastOp' = Other

\* "Reject" on the permission form
RejectContext ==
  /\ PermissionShown
  /\ workflow_step' = "start"
  /\ current_thread_id' = 0
  /\ UNCHANGED <<current_draft, current_subject, db, uuids, now, delivered,
                 app_frame>>
  /\ lastOp' = Other

\* main() calls show_approval_form for the step awaiting_approval only, and
\* the form draws its three buttons when there is a draft
ApprovalFormCalled == workflow_step = "awaiting_approval"
DecisionShown == ApprovalFormCalled /\ current_draft # <<>>

\* "Approve & Send"
ApproveAndSend ==
  /\ DecisionShown
  /\ now < MaxEngineClock
  /\ \E smtp \in SmtpOutcomes :
       LET result == continue_workflow(db, current_thread_id, "approved", <<>>,
                                       [ok |-> TRUE, text |-> <<>>], smtp,
                                       now + 1)
       IN  /\ result.error = "none"
           /\ db' = result.store
           /\ now' = now + 1
           /\ delivered' = IF smtp = "ok"
                           THEN [delivered EXCEPT ![current_thread_id] = @ + 1]
                           ELSE delivered
           /\ workflow_step' = "completed"
  /\ UNCHANGED <<current_thread_id, current_draft, current_subject, uuids,
                 app_frame>>
  /\ lastOp' = Other

\* "Request Changes"
RequestChanges ==
  /\ DecisionShown
  /\ workflow_step' = "request_changes"
  /\ UNCHANGED <<current_thread_id, current_draft, current_subject, db, uuids,
                 now, delivered, app_frame>>
  /\ lastOp' = Other

\* "Reject Draft"
RejectDraft ==
  /\ DecisionShown
  /\ workflow_step' = "start"
  /\ current_thread_id' = 0
  /\ UNCHANGED <<current_draft, current_subject, db, uuids, now, delivered,
                 app_frame>>
  /\ lastOp' = Other

\* the change-request section sits inside show_approval_form behind the
\* test workflow_step == "request_changes"
ChangeRequestShown == ApprovalFormCalled /\ workflow_step = "request_changes"

\* "Regenerate Draft"
RegenerateDraft ==
  /\ ChangeRequestShown
  /\ now < MaxEngineClock
  /\ \E feedback \in FeedbackTexts, outcome \in DraftOutcomes :
       IF strip(feedback) # <<>>
       THEN LET result == continue_workflow(db, current_thread_id,
                                            "needs_changes", feedback, outcome,
                                            "ok", now + 1)
            IN  /\ result.error = "none"
                /\ db' = result.store
                /\ now' = now + 1
                /\ current_draft' = result.draft
                /\ workflow_step' = "awaiting_approval"
       ELSE UNCHANGED <<db, now, current_draft, workflow_step>>
  /\ UNCHANGED <<current_thread_id, current_subject, uuids, delivered,
                 app_frame>>
  /\ lastOp' = Other

\* "Back to Review"
BackToReview ==
  /\ ChangeRequestShown
  /\ workflow_step' = "awaiting_approval"
  /\ UNCHANGED <<current_thread_id, current_draft, current_subject, db, uuids,
                 now, delivered, app_frame>>
  /\ lastOp' = Other

\* the completion page is drawn for a thread
CompletionShown == workflow_step = "completed" /\ current_thread_id # 0

\* mutant: the body handed over is the subject
retry_mail_swapped(final_email) ==
  [subject |-> final_email.subject, body |-> final_email.subject,
   recipients |-> final_email.recipients]

\* the arguments of es.send_email, src lines 323-327
retry_mail(final_email) ==
  [subject |-> final_email.subject, body |-> final_email.body,
   recipients |-> final_email.recipients]

\* "Retry Sending"
RetrySending ==
  /\ CompletionShown
  /\ get_thread_by_id(db, current_thread_id) # <<>>
  /\ LET thread_data == get_thread_by_id(db, current_thread_id)[1]
     IN  /\ thread_data.final_email # <<>>
         /\ thread_data.status = "send_failed"
         /\ \E smtp \in SmtpOutcomes :
              LET final_email == thread_data.final_email[1]
                  mail == retry_mail(final_email)
                  result == EmailService_send_email(mail.subject, mail.body,
                                                    mail.recipients, smtp)
              IN  /\ lastOp' = AppRan("retry",
                                      IF result.success THEN "sent" ELSE "failed",
                                      0, <<mail>>)
                  /\ delivered' =
                       IF smtp = "ok"
                       THEN [delivered EXCEPT ![current_thread_id] = @ + 1]
                       ELSE delivered
                  /\ IF result.success
                     THEN /\ now < MaxEngineClock
                          /\ db' = engine_update_email_status(
                                     db, current_thread_id, "sent", now + 1)
                          /\ now' = now + 1
                     ELSE UNCHANGED <<db, now>>
  /\ UNCHANGED <<app_session, uuids, app_frame>>

\* "Create Another Email" of app.py
CreateAnother ==
  /\ CompletionShown
  /\ current_thread_id' = 0
  /\ workflow_step' = "start"
  /\ current_draft' = <<>>
  /\ current_subject' = <<>>
  /\ UNCHANGED <<db, uuids, now, delivered, app_frame>>
  /\ lastOp' = Other

\* RegenerateDraft and BackToReview are handlers of the code; no step of
\* the dispatch in main() draws them, so they take no part in AppNext.
AppNext ==
  \/ SubmitBrief
  \/ NewEmail
  \/ LoadThread
  \/ ApproveCreateDraft
  \/ RejectContext
  \/ ApproveAndSend
  \/ RequestChanges
  \/ RejectDraft
  \/ RetrySending
  \/ CreateAnother

AppSpec == AppInit /\ [][AppNext]_vars

(* ============================== claims ================================ *)

ValidationErrors ==
  {"Please enter at least one recipient", "Please describe the email purpose"}

\* C1: once a thread's persisted status is sent, no later operation has the
\* mail transport deliver for it again.
C1_NeverRedelivers ==
  [][\A t \in DOMAIN db :
       db[t].status = "sent" => delivered'[t] = delivered[t]]_vars

\* C2: for every persisted thread, final_email is set if and only if the
\* status is sent or send_failed.
C2_FinalEmailIffSent ==
  \A t \in DOMAIN db :
    (db[t].final_email # <<>>) <=> (db[t].status \in {"sent", "send_failed"})

\* a thread was sent and carries its final_email while another record, saved
\* as a draft, carries none
C2_Witness ==
  /\ \E t \in DOMAIN db : db[t].status = "sent" /\ db[t].final_email # <<>>
  /\ \E t \in DOMAIN db : db[t].status = "draft" /\ db[t].final_email = <<>>

\* C3: after a send on which the transport reported failure, the thread's
\* persisted status is send_failed.
C3_FailedSendRecorded ==
  (lastOp.op = "send" /\ lastOp.outcome = "failed")
    => /\ lastOp.thread \in DOMAIN db
       /\ db[lastOp.thread].status = "send_failed"

\* C4: after a send on which the transport reported success, the thread's
\* persisted status is sent and its final_email is exactly the subject, body
\* and recipients handed to the transport.
C4_SentPersistsHandedMail ==
  (lastOp.op = "send" /\ lastOp.outcome = "sent")
    => /\ lastOp.thread \in DOMAIN db
       /\ db[lastOp.thread].status = "sent"
       /\ db[lastOp.thread].final_email = lastOp.mail

\* a send succeeded with a body that differs from the subject
C4_Witness ==
  /\ lastOp.op = "send" /\ lastOp.outcome = "sent"
  /\ lastOp.mail[1].body # lastOp.mail[1].subject

C6_InvalidTransitionNoChange ==
  [][\A t \in DOMAIN db :
       (db[t].status = "sent" /\ lastOp'.thread = t
        /\ lastOp'.op \in {"create", "save", "send"})
         => db'[t] = db[t]]_vars

\* C7: sent is terminal: once a thread's persisted status is sent, its
\* status and its final_email never change.
C7_SentIsTerminal ==
  [][\A t \in DOMAIN db :
       db[t].status = "sent"
         => /\ db'[t].status = "sent"
            /\ db'[t].final_email = db[t].final_email]_vars

\* C8: the recipients, purpose and tone persisted for a thread are never
\* altered by a later operation.
C8_BriefFrozen ==
  [][\A t \in DOMAIN db :
       /\ db'[t].recipients = db[t].recipients
       /\ db'[t].purpose = db[t].purpose
       /\ db'[t].tone = db[t].tone]_vars

\* C9: a send that directly follows the creation of the draft, with a
\* transport that does not fail, ends with status sent and with
\* final_email.recipients equal to the brief's recipients.
C9_CreateThenSendEndsSent ==
  (lastOp.op = "send" /\ lastOp.after = "create" /\ lastOp.outcome # "failed")
    => /\ lastOp.thread \in DOMAIN db
       /\ db[lastOp.thread].status = "sent"
       /\ db[lastOp.thread].final_email # <<>>
       /\ db[lastOp.thread].final_email[1].recipients
            = current_brief[1].recipients

\* C10: a create whose recipients list is empty or whose purpose is empty or
\* whitespace-only reports a validation error, makes no generation call and
\* writes nothing to the store.
C10_InvalidBriefRejected ==
  [][(/\ lastOp'.op = "create"
      /\ \/ recipient_list_of(lastOp'.input[1].recipients) = <<>>
         \/ strip(lastOp'.input[1].purpose) = <<>>)
       => /\ lastOp'.outcome \in ValidationErrors
          /\ lastOp'.gen = 0
          /\ db' = db]_vars

\* a create was refused for a whitespace-only purpose with recipients given,
\* and the session's thread has no record
C10_Witness ==
  /\ lastOp.op = "create"
  /\ lastOp.outcome = "Please describe the email purpose"
  /\ lastOp.input[1].purpose # <<>>
  /\ recipient_list_of(lastOp.input[1].recipients) # <<>>
  /\ thread_id \notin DOMAIN db

\* C11: a create whose recipients list has an entry that is not a well-formed
\* address reports a validation error and writes nothing to the store.
C11_MalformedAddressRejected ==
  [][(/\ lastOp'.op = "create"
      /\ \E i \in DOMAIN recipient_list_of(lastOp'.input[1].recipients) :
           recipient_list_of(lastOp'.input[1].recipients)[i]
             \notin WellFormedAddresses)
       => /\ lastOp'.outcome \in ValidationErrors
          /\ db' = db]_vars

\* the brief of a form passes the validation of start: its recipients list
\* is non-empty, every entry is a well-formed address, its purpose is not
\* blank
ValidForm(form) ==
  /\ recipient_list_of(form.recipients) # <<>>
  /\ \A i \in DOMAIN recipient_list_of(form.recipients) :
       recipient_list_of(form.recipients)[i] \in WellFormedAddresses
  /\ strip(form.purpose) # <<>>

\* a create ran its generation calls; its record holds the form and the
\* provider's answers
CreateGenerated == lastOp.op = "create" /\ Len(lastOp.input) = 2

\* C12: after a create with a valid brief whose context generation succeeds,
\* the thread is persisted with status context_ready and with the brief's
\* recipients, purpose and tone exactly as given.
C12_StartPersistsContextReady ==
  (/\ CreateGenerated
   /\ ValidForm(lastOp.input[1])
   /\ lastOp.input[2].context # ApiErrorText)
    => /\ lastOp.thread \in DOMAIN db
       /\ db[lastOp.thread].status = "context_ready"
       /\ db[lastOp.thread].recipients
            = recipient_list_of(lastOp.input[1].recipients)
       /\ db[lastOp.thread].purpose = lastOp.input[1].purpose
       /\ db[lastOp.thread].tone = lastOp.input[1].tone

\* C13: a draft-generation call is made only for a thread whose persisted
\* status is context_ready, that is, after its context has been generated
\* and the caller has been asked to approve it.
C13_DraftOnlyAfterApproval ==
  [][(lastOp'.op = "create" /\ lastOp'.gen = 2)
       => /\ lastOp'.thread \in DOMAIN db
          /\ db[lastOp'.thread].status = "context_ready"]_vars

\* C14: a create during which a generation call fails commits no draft: the
\* store is left as it was and no persisted draft is the provider's failure
\* text.
C14_FailedGenerationCommitsNoDraft ==
  [][(/\ lastOp'.op = "create" /\ Len(lastOp'.input) = 2
      /\ \/ lastOp'.input[2].context = ApiErrorText
         \/ lastOp'.input[2].draft = ApiErrorText)
       => /\ db' = db
          /\ \A t \in DOMAIN db' : db'[t].draft # ApiErrorText]_vars

\* C15: an improvement during which the generation call fails reports an
\* error and leaves the current draft as it was.
C15_FailedRevisionKeepsDraft ==
  [][(/\ lastOp'.op = "apply" /\ Len(lastOp'.input) = 2
      /\ lastOp'.input[2] = ApiErrorText)
       => /\ current_draft' = current_draft
          /\ lastOp'.outcome # "Draft improved!"]_vars

\* no part of the response is valid JSON: it has no number and no pair of
\* braces with nothing but members between them
NoValidJson(r) ==
  /\ \A i \in DOMAIN r : r[i] # "7"
  /\ \A i \in DOMAIN r : r[i] = "{" =>
       \A j \in (i + 1)..Len(r) : r[j] = "}" =>
         \E k \in (i + 1)..(j - 1) : r[k] \notin Members

\* the response has no fenced block: no fence that is followed by another
NoFencedBlock(r) ==
  find(r, Fence) = -1 \/ find_from(r, Fence, find(r, Fence) + Len(Fence)) = -1

\* C16: for a response with no valid JSON and no fenced block, and any
\* purpose, process_requirements returns the subject "Regarding: " followed by
\* the first 50 characters of the purpose and "...", and a context whose
\* purpose is the raw purpose.
C16_FallbackSubject ==
  (/\ probe # <<>>
   /\ probe.stage # "asked"
   /\ NoValidJson(probe.response)
   /\ NoFencedBlock(probe.response))
    => /\ probe.stage # "error"
       /\ probe.result[1].subject
            = <<"Regarding: ">>
                \o SubSeq(probe.purpose, 1,
                          IF Len(probe.purpose) > 50 THEN 50
                          ELSE Len(probe.purpose))
                \o <<"...">>
       /\ probe.result[1].context.purpose = probe.purpose

\* prose without fence or JSON was answered to a brief whose purpose is
\* longer than 50 characters
C16_Witness ==
  /\ probe # <<>>
  /\ probe.stage = "extracted"
  /\ probe.response # <<>>
  /\ NoValidJson(probe.response)
  /\ ~contains(probe.response, Fence)
  /\ Len(probe.purpose) > 50

\* the payload the extraction rules name for a response: after the first
\* opening JSON fence up to the next fence (up to the end when none
\* follows), else from the first "{" to the last "}", else the response
RulePayload(r) ==
  IF contains(r, FenceJson)
  THEN LET from == find(r, FenceJson) + Len(FenceJson)
           to == find_from(r, Fence, from)
       IN  SubSeq(r, from + 1, IF to = -1 THEN Len(r) ELSE to)
  ELSE IF contains(r, <<"{">>) /\ contains(r, <<"}">>)
  THEN SubSeq(r, find(r, <<"{">>) + 1, rfind(r, <<"}">>) + 1)
  ELSE r

\* C17: for every provider response the payload handed to the parser is,
\* surrounding whitespace aside, the content between the first opening JSON
\* fence and the next fence when the JSON fence marker is present, else the
\* text from the first "{" to the last "}" when both occur, else the whole
\* response.
C17_PayloadChosen ==
  (probe # <<>> /\ probe.stage # "asked")
    => strip(probe.payload[1]) = strip(RulePayload(probe.response))

\* C18: for every provider response process_requirements returns a subject
\* and a context without raising, and the handler goes on to the draft.
C18_NeverBlocksOnResponse ==
  (probe # <<>> /\ probe.stage # "asked")
    => /\ probe.stage \in {"extracted", "drafted"}
       /\ {"subject", "context"} \subseteq DOMAIN probe.result[1]
       /\ probe.stage = "extracted" => ENABLED CallCreateDraft

\* a draft was made after a response whose JSON fence is not closed
C18_Witness ==
  /\ probe # <<>>
  /\ probe.stage = "drafted"
  /\ contains(probe.response, FenceJson)
  /\ find_from(probe.response, Fence,
               find(probe.response, FenceJson) + Len(FenceJson)) = -1
  /\ probe.result[1].fallback

\* C19: an improvement asked with empty or whitespace-only feedback is
\* refused: it makes no generation call and leaves the current draft and
\* the store as they were.
C19_BlankFeedbackRefused ==
  [][(lastOp'.op = "apply" /\ strip(lastOp'.input[1]) = <<>>)
       => /\ lastOp'.outcome = "Please describe what you'd like to improve"
          /\ lastOp'.gen = 0
          /\ current_draft' = current_draft
          /\ db' = db]_vars

\* "Apply Improvements" was refused for a feedback of one blank
C19_Witness ==
  /\ lastOp.op = "apply"
  /\ lastOp.input = << <<" ">> >>
  /\ lastOp.gen = 0
  /\ current_draft # <<>>

\* C20: the change-request step is transient: whenever the session is in it,
\* the draft can be regenerated or the review can be returned to.
C20_ChangeRequestTransient ==
  workflow_step = "request_changes" => ENABLED (RegenerateDraft \/ BackToReview)

\* C21: every persisted thread records a draft revision number, and an
\* improvement of the draft leaves a revision that is strictly greater than
\* the one recorded before it.
C21_RevisionIncreases ==
  [][(lastOp'.op = "apply" /\ lastOp'.outcome = "Draft improved!")
       => /\ lastOp'.thread \in DOMAIN db'
          /\ "revision" \in DOMAIN db'[lastOp'.thread]
          /\ db'[lastOp'.thread].revision > db[lastOp'.thread].revision]_vars

\* C22: when an improvement of the draft has completed, the persisted
\* thread's subject and draft are the ones the session shows, so that
\* loading the thread again yields them.
C22_ImprovementWrittenBack ==
  [][(lastOp'.op = "apply" /\ lastOp'.outcome = "Draft improved!")
       => /\ lastOp'.thread \in DOMAIN db'
          /\ db'[lastOp'.thread].draft = current_draft'
          /\ db'[lastOp'.thread].subject = current_subject']_vars

\* C23: a reject of the session's thread, on the permission form or on the
\* review form, leaves the thread persisted with status rejected.
C23_RejectPersisted ==
  [][(RejectContext \/ RejectDraft)
       => /\ current_thread_id \in DOMAIN db'
          /\ db'[current_thread_id].status = "rejected"]_vars

\* C24: a get or an update for a thread id that has no row fails (it raises,
\* or the get returns nothing) and leaves the store as it was.
C24_UnknownThreadFails ==
  [][(probe'.op \in {"get", "update"} /\ ~probe'.known)
       => /\ probe'.raised \/ (probe'.op = "get" /\ probe'.result = <<>>)
          /\ db' = db]_vars

\* C25: the history lists every persisted thread, and a thread that was
\* created earlier never comes before a thread that was created later.
C25_HistoryNewestFirst ==
  LET history == get_email_history(db)
  IN  /\ Len(history) = Cardinality(DOMAIN db)
      /\ \A i \in DOMAIN history : \A j \in DOMAIN history :
           i < j => probe.born[history[i].thread_id]
                      >= probe.born[history[j].thread_id]

\* the four failure classes: credentials missing, authentication failure,
\* recipients refused, transport failure
FailureClasses == {"no_credentials", "auth", "refused", "other"}

C27_RetrySendsFinalEmail ==
  [][lastOp'.op = "retry"
       => /\ lastOp'.gen = 0
          /\ lastOp'.thread \in DOMAIN db
          /\ db[lastOp'.thread].final_email # <<>>
          /\ lastOp'.mail = db[lastOp'.thread].final_email
          /\ \A t \in DOMAIN db : /\ db'[t].draft = db[t].draft
                                  /\ db'[t].subject = db[t].subject
                                  /\ db'[t].final_email = db[t].final_email]_vars

\* a retry handed over a mail whose body differs from its subject
C27_Witness ==
  /\ lastOp.op = "retry"
  /\ lastOp.mail[1].body # lastOp.mail[1].subject
  /\ lastOp.mail[1].recipients # <<>>

\* C28: every persisted thread with status sent has a final_email whose
\* subject and body are both non-empty (and not blank).
C28_SentMailNotEmpty ==
  \A t \in DOMAIN db :
    db[t].status = "sent"
      => /\ db[t].final_email # <<>>
         /\ strip(db[t].final_email[1].subject) # <<>>
         /\ strip(db[t].final_email[1].body) # <<>>

\* a thread whose generated subject was empty was sent after the user typed
\* a subject
C28_Witness ==
  \E t \in DOMAIN db :
    /\ db[t].status = "sent"
    /\ db[t].subject = <<>>
    /\ db[t].final_email # <<>>
    /\ db[t].final_email[1].subject = <<"t">>

\* C29: a save or a status update given one thread id leaves the persisted
\* row of every other thread id as it was.
C29_OtherRowsUntouched ==
  [][probe'.op \in {"save", "update"}
       => \A t \in DOMAIN db \ {probe'.tid} :
            /\ t \in DOMAIN db'
            /\ db'[t] = db[t]]_vars

\* a status update hit one of two stored threads and the other one is
\* still not sent
C29_Witness ==
  /\ probe.op = "update"
  /\ probe.known
  /\ db[probe.tid].status = "sent"
  /\ \E t \in DOMAIN db \ {probe.tid} : db[t].status # "sent"

\* C30: no operation deletes a thread: every persisted thread id stays
\* persisted, and every thread id listed by get_email_history stays listed.
Listed(d) ==
  LET history == get_email_history(d)
  IN  { history[i].thread_id : i \in DOMAIN history }

C30_NeverDeleted ==
  [][/\ DOMAIN db \subseteq DOMAIN db'
     /\ Listed(db) \subseteq Listed(db')]_vars

\* two threads are listed after one of them was saved over again
C30_Witness ==
  /\ Cardinality(Listed(db)) = 2
  /\ lastOp.op = "save"
  /\ \E t \in DOMAIN db : db[t].status = "saved"

\* C31: after a Load of any thread listed in the history, in any session,
\* the session holds that thread's own draft, subject and brief, so that the
\* review form has a brief to show and to send to.
C31_LoadedThreadReviewable ==
  [][LoadFromHistory
       => /\ current_draft' = db[thread_id'].draft
          /\ current_subject' = db[thread_id'].subject
          /\ current_brief' # <<>>
          /\ current_brief'[1].recipients = db[thread_id'].recipients
          /\ current_brief'[1].purpose = db[thread_id'].purpose
          /\ current_brief'[1].tone = db[thread_id'].tone]_vars

\* C32: for every persisted thread whose final_email is set, the recipients
\* in final_email are the recipients stored in that thread's own row.
C32_FinalRecipientsAreStored ==
  \A t \in DOMAIN db :
    db[t].final_email # <<>>
      => db[t].final_email[1].recipients = db[t].recipients

\* C33: a row is written with status sent only in a step in which the
\* transport accepted a message for that thread; so every thread with
\* status sent has had at least one successful delivery.
C33_SentOnlyAfterDelivery ==
  [][\A t \in DOMAIN db' :
       (db'[t].status = "sent" /\ (t \notin DOMAIN db \/ db'[t] # db[t]))
         => /\ delivered'[t] = delivered[t] + 1
            /\ lastOp'.op = "send"
            /\ lastOp'.thread = t
            /\ lastOp'.mail # <<>>]_vars

\* a thread is sent after a first attempt on which the transport failed
C33_Witness ==
  /\ lastOp.op = "send"
  /\ lastOp.outcome = "sent"
  /\ lastOp.after = "failed"
  /\ lastOp.thread \in DOMAIN db
  /\ db[lastOp.thread].status = "sent"
  /\ delivered[lastOp.thread] = 1

\* C34: a Save Draft on a thread that already has a row leaves that row's
\* created_at and final_email as they were.
C34_SaveKeepsCreationAndFinal ==
  [][(SaveDraft /\ thread_id \in DOMAIN db)
       => /\ db'[thread_id].created_at = db[thread_id].created_at
          /\ db'[thread_id].final_email = db[thread_id].final_email]_vars

\* C35: a call of the delivery client's send_email never raises; it returns
\* a boolean success and a message; success is true only when login and
\* sendmail both returned; with a credential missing it returns failure and
\* no transport connection was opened.
C35_SendNeverRaises ==
  (probe # <<>> /\ probe.stage = "returned")
    => LET result == probe.result[1]
           complete == /\ probe.credentials.username
                       /\ probe.credentials.password
       IN  /\ ~result.raised
           /\ \A i \in DOMAIN probe.inner : ~probe.inner[i].raised
           /\ result.success \in BOOLEAN
           /\ result.message # <<>>
           /\ result.success
                => /\ result.logged_in /\ result.sent
                   /\ probe.import = "imported"
                   /\ complete
                   /\ probe.steps["login"] = "ok"
                   /\ probe.steps["sendmail"] = "ok"
           /\ ~complete => (~result.success /\ ~result.opened)

\* the password is missing while the session would have gone through: the
\* call returned a failure
C35_Witness ==
  /\ probe # <<>>
  /\ probe.stage = "returned"
  /\ probe.import = "imported"
  /\ probe.credentials.username
  /\ ~probe.credentials.password
  /\ first_failure(probe.steps) = 0
  /\ ~probe.result[1].success

====
